---- MODULE Spec2Model ----
(***************************************************************************)
(* Voter registration routes of Electorate-Vanadium-Backend                *)
(* (src/src/electos/vanadium/app/route/voter_registration.py) on top of    *)
(* the transaction-keyed request registry they call through                *)
(* Resources.get_storage().                                                *)
(*                                                                         *)
(* The four route handlers are plain `def` functions, which the framework  *)
(* dispatches on worker threads: each handler is a request received, one   *)
(* call into the registry, and the response built from the value the call  *)
(* returned.  The registry (vanadium.app.resource) and the identifier      *)
(* generator (vanadium.utils.UniqueIds) live in other packages; they       *)
(* follow sections 4 and 5 of the design document.                         *)
(***************************************************************************)
EXTENDS Integers, Sequences, FiniteSets, TLC

VARIABLES
    storage,    \* the registry: transaction id (str) -> stored request
    clock,      \* the time source the identifier generator reads
    pc,         \* per worker: "idle", "received", "returned"
    req,        \* per worker: the request being handled (or the last one)
    value,      \* per worker: what the registry call returned (handler local)
    resp,       \* per worker: the HTTP response of the last finished request
    live,       \* history: key -> the request a successful insert/update last
                \* stored under it and which of the two did, until its remove
    removed,    \* history: keys whose last successful mutation was a remove
    holds       \* history: workers inside a create whose insert succeeded and
                \* whose key no remove has taken since

vars == <<storage, clock, pc, req, value, resp, live, removed, holds>>

----------------------------------------------------------------------------
(* Bounds of the model *)

\* Readings of the time source: 0..MaxClock.
MaxClock == 1

\* Two worker threads: the least number with which handlers overlap.
Workers == {"w1", "w2"}

----------------------------------------------------------------------------
(* Python values.  Every value is a record of the same shape so that any   *)
(* two can be compared: t is the type tag, s the string of a str (or the   *)
(* TransactionId of a request object), n says that a request object's      *)
(* TransactionId is None, body stands for the rest of a request object.    *)

None_ == [t |-> "none", s |-> "", n |-> TRUE, body |-> ""]

Str(x) == [t |-> "str", s |-> x, n |-> FALSE, body |-> ""]

Removed == [t |-> "bool", s |-> "True", n |-> FALSE, body |-> ""]

VoterRecordsRequest(tid, body) ==
    [t |-> "obj", s |-> tid.s, n |-> (tid.t = "none"), body |-> body]

\* item.transaction_id
transaction_id_of(item) == IF item.n THEN None_ ELSE Str(item.s)

\* Python truth value testing, as applied by `if registration_id:` and
\* `if value:`: None and the empty string are false, a model object is true.
Truthy(x) ==
    CASE x.t = "none" -> FALSE
      [] x.t = "str"  -> x.s # ""
      [] x.t = "bool" -> x.s = "True"
      [] OTHER        -> TRUE

----------------------------------------------------------------------------
(* Identifier generator: "generate one from the current time", with no     *)
(* knowledge of the registry's contents.                                   *)

TimestampId(t) == "ts-" \o ToString(t)

generate(now) == Str(TimestampId(now))

----------------------------------------------------------------------------
(* Request registry, design section 4.2.  Each operation runs as one       *)
(* atomic unit (section 5) and yields the new mapping and its result.      *)

\* Mutant of insert: the presence check is lost and the entry overwritten.
insert_overwrite(st, now, key, payload) ==
    LET k == IF key = None_ THEN generate(now) ELSE key
    IN  [st |-> (k.s :> payload) @@ st, ret |-> k]

insert(st, now, key, payload) ==
    LET k == IF key = None_ THEN generate(now) ELSE key
    IN  IF k.s \in DOMAIN st
        THEN [st |-> st, ret |-> None_]
        ELSE [st |-> (k.s :> payload) @@ st, ret |-> k]

lookup(st, key) ==
    IF key.s \in DOMAIN st
    THEN [st |-> st, ret |-> st[key.s]]
    ELSE [st |-> st, ret |-> None_]

update(st, key, payload) ==
    IF key.s \in DOMAIN st
    THEN [st |-> [st EXCEPT ![key.s] = payload], ret |-> payload]
    ELSE [st |-> st, ret |-> None_]

remove(st, key) ==
    IF key.s \in DOMAIN st
    THEN [st |-> [k \in DOMAIN st \ {key.s} |-> st[k]], ret |-> Removed]
    ELSE [st |-> st, ret |-> None_]

----------------------------------------------------------------------------
(* HTTP layer *)

HTTP_200_OK == 200
HTTP_201_CREATED == 201
HTTP_400_BAD_REQUEST == 400
HTTP_404_NOT_FOUND == 404

REGISTRATION_CREATED == "registration-created"
REGISTRATION_UPDATED == "registration-updated"
REGISTRATION_CANCELLED == "registration-cancelled"
IDENTITY_LOOKUP_FAILED == "identity-lookup-failed"

AlreadyExists ==
    "Voter registration request already exists. The transaction ID is already associated to a pending request."

NotFound ==
    "Voter registration request not found. The transaction ID isn't associated with any pending requests."

NoResponse ==
    [status |-> 0, type |-> "", Action |-> <<>>, Error |-> <<>>,
     AdditionalDetails |-> <<>>, TransactionId |-> None_]

RequestSuccess(action, tid) ==
    [status |-> HTTP_200_OK, type |-> "RequestSuccess", Action |-> <<action>>,
     Error |-> <<>>, AdditionalDetails |-> <<>>, TransactionId |-> tid]

RequestAcknowledgement(tid) ==
    [status |-> HTTP_200_OK, type |-> "RequestAcknowledgement", Action |-> <<>>,
     Error |-> <<>>, AdditionalDetails |-> <<>>, TransactionId |-> tid]

RequestRejection(code, detail, tid) ==
    [status |-> code, type |-> "RequestRejection", Action |-> <<>>,
     Error |-> <<IDENTITY_LOOKUP_FAILED>>, AdditionalDetails |-> <<detail>>,
     TransactionId |-> tid]

----------------------------------------------------------------------------
(* The handlers: the registry call each makes, and the response it builds  *)
(* from the returned value.                                                *)

\* Mutant of request_call: the client's transaction id is not passed on.
request_call_no_id(st, now, item) == insert(st, now, None_, item)

request_call(st, now, item) == insert(st, now, transaction_id_of(item), item)

\* Mutant of status_call: the handler takes the entry out as it reads it.
status_call_pops(st, transaction_id) ==
    [st |-> remove(st, transaction_id).st, ret |-> lookup(st, transaction_id).ret]

status_call(st, transaction_id) == lookup(st, transaction_id)

\* Mutant of update_call: the handler creates instead of replacing.
update_call_inserts(st, transaction_id, item) ==
    LET r == insert(st, 0, transaction_id, item)
    IN  [st |-> r.st, ret |-> item]

\* Mutant of update_call: the handler checks the entry and stores nothing.
update_call_no_store(st, transaction_id, item) == lookup(st, transaction_id)

update_call(st, transaction_id, item) == update(st, transaction_id, item)

\* Mutant of cancel_call: the handler checks the entry and deletes nothing.
cancel_call_no_delete(st, transaction_id) == lookup(st, transaction_id)

\* Mutant of cancel_call: the entry is kept under its key as a tombstone.
cancel_call_tombstones(st, transaction_id) ==
    IF transaction_id.s \in DOMAIN st
    THEN [st |-> [st EXCEPT ![transaction_id.s] = None_], ret |-> Removed]
    ELSE [st |-> st, ret |-> None_]

\* Mutant of cancel_call: the whole mapping is cleared.
cancel_call_clears(st, transaction_id) ==
    IF transaction_id.s \in DOMAIN st
    THEN [st |-> <<>>, ret |-> Removed]
    ELSE [st |-> st, ret |-> None_]

cancel_call(st, transaction_id) == remove(st, transaction_id)

\* Mutant of request_response: the rejection carries the other handlers' text.
request_response_wrong_detail(registration_id) ==
    IF Truthy(registration_id)
    THEN RequestSuccess(REGISTRATION_CREATED, registration_id)
    ELSE RequestRejection(HTTP_400_BAD_REQUEST, NotFound, registration_id)

request_response(registration_id) ==
    IF Truthy(registration_id)
    THEN RequestSuccess(REGISTRATION_CREATED, registration_id)
    ELSE RequestRejection(HTTP_400_BAD_REQUEST, AlreadyExists, registration_id)

\* Mutant of status_response: the test of the looked-up value is inverted.
status_response_inverted(transaction_id, val) ==
    IF ~Truthy(val)
    THEN RequestAcknowledgement(transaction_id)
    ELSE RequestRejection(HTTP_404_NOT_FOUND, NotFound, transaction_id)

status_response(transaction_id, val) ==
    IF Truthy(val)
    THEN RequestAcknowledgement(transaction_id)
    ELSE RequestRejection(HTTP_404_NOT_FOUND, NotFound, transaction_id)

\* Mutant of update_response: the rejection leaves the status code unset.
update_response_status_unset(transaction_id, val) ==
    IF Truthy(val)
    THEN RequestSuccess(REGISTRATION_UPDATED, transaction_id)
    ELSE RequestRejection(HTTP_200_OK, NotFound, transaction_id)

update_response(transaction_id, val) ==
    IF Truthy(val)
    THEN RequestSuccess(REGISTRATION_UPDATED, transaction_id)
    ELSE RequestRejection(HTTP_404_NOT_FOUND, NotFound, transaction_id)

\* Mutant of cancel_response: the rejection names no error.
cancel_response_no_error(transaction_id, val) ==
    IF Truthy(val)
    THEN RequestSuccess(REGISTRATION_CANCELLED, transaction_id)
    ELSE [RequestRejection(HTTP_404_NOT_FOUND, NotFound, transaction_id)
            EXCEPT !.Error = <<>>]

cancel_response(transaction_id, val) ==
    IF Truthy(val)
    THEN RequestSuccess(REGISTRATION_CANCELLED, transaction_id)
    ELSE RequestRejection(HTTP_404_NOT_FOUND, NotFound, transaction_id)

----------------------------------------------------------------------------
(* Inputs *)

Bodies == {"A", "B"}

\* TransactionId values a client puts in a request body: absent, empty, or
\* an id of its own choice.  Ids are opaque strings, so the one a client
\* chooses may be a string the generator produces at some time.
BodyIds == {None_, Str(""), Str(TimestampId(0))}

\* Transaction ids in a URL path: a path segment is never empty.
PathIds == {Str(TimestampId(t)) : t \in 0..MaxClock}

NoItem == None_

NoRequest == [op |-> "none", transaction_id |-> None_, item |-> NoItem]

Requests ==
    {[op |-> "request", transaction_id |-> None_, item |-> VoterRecordsRequest(i, "A")]
        : i \in BodyIds}
    \cup {[op |-> "status", transaction_id |-> t, item |-> NoItem] : t \in PathIds}
    \cup {[op |-> "update", transaction_id |-> t, item |-> VoterRecordsRequest(t, b)]
        : t \in PathIds, b \in Bodies}
    \cup {[op |-> "cancel", transaction_id |-> t, item |-> NoItem] : t \in PathIds}

----------------------------------------------------------------------------
(* State machine *)

Init ==
    /\ storage = <<>>
    /\ clock = 0
    /\ pc = [w \in Workers |-> "idle"]
    /\ req = [w \in Workers |-> NoRequest]
    /\ value = [w \in Workers |-> None_]
    /\ resp = [w \in Workers |-> NoResponse]
    /\ live = <<>>
    /\ removed = {}
    /\ holds = {}

\* The time source advances.
Tick ==
    /\ clock < MaxClock
    /\ clock' = clock + 1
    /\ UNCHANGED <<storage, pc, req, value, resp, live, removed, holds>>

\* The framework hands a request to a free worker.
Receive(w) ==
    /\ pc[w] = "idle"
    /\ \E r \in Requests : req' = [req EXCEPT ![w] = r]
    /\ pc' = [pc EXCEPT ![w] = "received"]
    /\ resp' = [resp EXCEPT ![w] = NoResponse]
    /\ UNCHANGED <<storage, clock, value, live, removed, holds>>

\* Mutant of Returned: the call waits while another request is waiting to
\* make its own.
Returned_waits(w, r) ==
    /\ \A v \in Workers \ {w} : pc[v] # "received"
    /\ storage' = r.st
    /\ value' = [value EXCEPT ![w] = r.ret]
    /\ pc' = [pc EXCEPT ![w] = "returned"]
    /\ UNCHANGED <<clock, req, resp>>

\* The handler's registry call returns r.
Returned(w, r) ==
    /\ storage' = r.st
    /\ value' = [value EXCEPT ![w] = r.ret]
    /\ pc' = [pc EXCEPT ![w] = "returned"]
    /\ UNCHANGED <<clock, req, resp>>

\* The handler returns response x.
Responded(w, x) ==
    /\ resp' = [resp EXCEPT ![w] = x]
    /\ value' = [value EXCEPT ![w] = None_]
    /\ pc' = [pc EXCEPT ![w] = "idle"]
    /\ req' = [req EXCEPT ![w] = NoRequest]
    /\ holds' = holds \ {w}
    /\ UNCHANGED <<storage, clock, live, removed>>

voter_registration_request_call(w) ==
    /\ pc[w] = "received" /\ req[w].op = "request"
    /\ LET r == request_call(storage, clock, req[w].item)
       IN  /\ Returned(w, r)
           /\ IF r.ret # None_
              THEN /\ live' = (r.ret.s :> [item |-> req[w].item, by |-> "insert"]) @@ live
                   /\ removed' = removed \ {r.ret.s}
                   /\ holds' = holds \cup {w}
              ELSE UNCHANGED <<live, removed, holds>>

voter_registration_request_return(w) ==
    /\ pc[w] = "returned" /\ req[w].op = "request"
    /\ Responded(w, request_response(value[w]))

voter_registration_status_call(w) ==
    /\ pc[w] = "received" /\ req[w].op = "status"
    /\ Returned(w, status_call(storage, req[w].transaction_id))
    /\ UNCHANGED <<live, removed, holds>>

voter_registration_status_return(w) ==
    /\ pc[w] = "returned" /\ req[w].op = "status"
    /\ Responded(w, status_response(req[w].transaction_id, value[w]))

voter_registration_update_call(w) ==
    /\ pc[w] = "received" /\ req[w].op = "update"
    /\ LET r == update_call(storage, req[w].transaction_id, req[w].item)
       IN  /\ Returned(w, r)
           /\ IF r.ret # None_
              THEN /\ live' = (req[w].transaction_id.s :>
                                [item |-> req[w].item, by |-> "update"]) @@ live
                   /\ UNCHANGED <<removed, holds>>
              ELSE UNCHANGED <<live, removed, holds>>

voter_registration_update_return(w) ==
    /\ pc[w] = "returned" /\ req[w].op = "update"
    /\ Responded(w, update_response(req[w].transaction_id, value[w]))

voter_registration_cancel_call(w) ==
    /\ pc[w] = "received" /\ req[w].op = "cancel"
    /\ LET r == cancel_call(storage, req[w].transaction_id)
       IN  /\ Returned(w, r)
           /\ IF r.ret # None_
              THEN /\ live' = [k \in DOMAIN live \ {req[w].transaction_id.s} |-> live[k]]
                   /\ removed' = removed \cup {req[w].transaction_id.s}
                   /\ holds' = {v \in holds : value[v] # req[w].transaction_id}
              ELSE UNCHANGED <<live, removed, holds>>

voter_registration_cancel_return(w) ==
    /\ pc[w] = "returned" /\ req[w].op = "cancel"
    /\ Responded(w, cancel_response(req[w].transaction_id, value[w]))

Next ==
    \/ Tick
    \/ \E w \in Workers : Receive(w)
    \/ \E w \in Workers : voter_registration_request_call(w)
    \/ \E w \in Workers : voter_registration_request_return(w)
    \/ \E w \in Workers : voter_registration_status_call(w)
    \/ \E w \in Workers : voter_registration_status_return(w)
    \/ \E w \in Workers : voter_registration_update_call(w)
    \/ \E w \in Workers : voter_registration_update_return(w)
    \/ \E w \in Workers : voter_registration_cancel_call(w)
    \/ \E w \in Workers : voter_registration_cancel_return(w)

Spec == Init /\ [][Next]_vars

\* The steps of the handler that worker w runs.
HandlerStep(w) ==
    \/ voter_registration_request_call(w)
    \/ voter_registration_request_return(w)
    \/ voter_registration_status_call(w)
    \/ voter_registration_status_return(w)
    \/ voter_registration_update_call(w)
    \/ voter_registration_update_return(w)
    \/ voter_registration_cancel_call(w)
    \/ voter_registration_cancel_return(w)

\* Fair scheduling: a worker thread that can take a step of its handler
\* is not passed over forever.
FairSpec == Spec /\ \A w \in Workers : WF_vars(HandlerStep(w))

----------------------------------------------------------------------------
(* Steps and readings the properties speak about *)

\* Worker w's handler `op` makes its registry call in this step.
CallStep(w, op) ==
    pc[w] = "received" /\ pc'[w] = "returned" /\ req[w].op = op

\* Worker w's handler `op` returns its response in this step.
ReturnStep(w, op) ==
    pc[w] = "returned" /\ pc'[w] = "idle" /\ req[w].op = op

\* The key the create handled by worker w inserts under, were it to call now:
\* the client's TransactionId, or the identifier generated at this time.
ResolvedKey(w) ==
    IF req[w].item.n THEN TimestampId(clock) ELSE req[w].item.s

\* Worker w has made a create's registry call and not yet responded.
InCreate(w) == pc[w] = "returned" /\ req[w].op = "request"

----------------------------------------------------------------------------
(* Uniqueness of keys *)

\* C1: an insert whose key (the client's, or the generated one) is present
\* in the registry returns Rejected (None) and mutates nothing: the mapping,
\* keys and payloads, is the same after the call; and a successful insert
\* never returns a key that an earlier successful insert still holds.
C1_InsertPresentRejected ==
    [][\A w \in Workers :
        CallStep(w, "request") =>
            /\ ResolvedKey(w) \in DOMAIN storage =>
                   value'[w] = None_ /\ storage' = storage
            /\ value'[w] # None_ => value'[w].s \notin DOMAIN live]_vars

\* A create with a client-supplied id came back Rejected while the id is held.
C1_Witness ==
    \E w \in Workers :
        /\ InCreate(w) /\ ~req[w].item.n
        /\ value[w] = None_
        /\ req[w].item.s \in DOMAIN storage

\* C2: of two create handlers that overlap in time, the one that inserts
\* first under an absent key succeeds, and the other, inserting the key the
\* first was given while no remove has taken it, is Rejected: no state has
\* both having succeeded with the same key.
C2_OverlappingCreates ==
    /\ [](\A w1, w2 \in Workers :
            (w1 # w2 /\ w1 \in holds /\ w2 \in holds) => value[w1] # value[w2])
    /\ [][\A w1, w2 \in Workers :
            (w1 # w2 /\ CallStep(w2, "request")) =>
                /\ ResolvedKey(w2) \notin DOMAIN storage =>
                       value'[w2] = Str(ResolvedKey(w2))
                /\ (w1 \in holds /\ value[w1] = Str(ResolvedKey(w2))) =>
                       value'[w2] = None_]_vars

\* Two overlapping creates of the same client-supplied id have both made
\* their registry call: one holds the key, the other was Rejected.
C2_Witness ==
    \E w1, w2 \in Workers :
        /\ w1 # w2 /\ InCreate(w1) /\ InCreate(w2)
        /\ ~req[w1].item.n /\ req[w1].item = req[w2].item
        /\ value[w1] = Str(req[w1].item.s) /\ w1 \in holds
        /\ value[w2] = None_

\* C3 (as claimed): an insert called with no key returns a generated key
\* that was not present in the registry at the time of the call, so the
\* create succeeds.
C3_GeneratedKeyFresh ==
    [][\A w \in Workers :
        (CallStep(w, "request") /\ req[w].item.n) =>
            /\ value'[w] # None_
            /\ value'[w].s \notin DOMAIN storage]_vars

----------------------------------------------------------------------------
(* Operations on absent and present keys *)

\* The key of the status check, update or cancel worker w handles.
PathKey(w) == req[w].transaction_id.s

\* C4: an update, remove or lookup called with a key that is absent returns
\* NotFound (None) and leaves the mapping as it was: no entry is created,
\* the key set and its cardinality are unchanged.
C4_AbsentKeyNoCreation ==
    [][\A w \in Workers : \A op \in {"status", "update", "cancel"} :
        (CallStep(w, op) /\ PathKey(w) \notin DOMAIN storage) =>
            /\ value'[w] = None_
            /\ storage' = storage
            /\ Cardinality(DOMAIN storage') = Cardinality(DOMAIN storage)]_vars

\* An update of an absent key came back NotFound and the key is still absent.
C4_Witness ==
    \E w \in Workers :
        /\ pc[w] = "returned" /\ req[w].op = "update"
        /\ value[w] = None_
        /\ PathKey(w) \notin DOMAIN storage

\* C5: a lookup of k, called when the last successful write of k was an
\* update(k, p2) and no remove of k succeeded since, returns exactly p2.
C5_UpdateThenLookup ==
    [][\A w \in Workers :
        (/\ CallStep(w, "status")
         /\ PathKey(w) \in DOMAIN live
         /\ live[PathKey(w)].by = "update") =>
            value'[w] = live[PathKey(w)].item]_vars

\* A lookup returned the payload "B", which only an update stores.
C5_Witness ==
    \E w \in Workers :
        /\ pc[w] = "returned" /\ req[w].op = "status"
        /\ PathKey(w) \in DOMAIN live
        /\ live[PathKey(w)].by = "update"
        /\ value[w] = live[PathKey(w)].item
        /\ value[w].body = "B"

\* C6: a successful insert with a client-supplied key returns that key, and
\* a lookup of a key returned by a successful insert(k, p), called when no
\* update or remove of it succeeded since, returns exactly p.
C6_InsertThenLookup ==
    [][\A w \in Workers :
        /\ (CallStep(w, "request") /\ ~req[w].item.n /\ value'[w] # None_) =>
               value'[w] = Str(req[w].item.s)
        /\ (/\ CallStep(w, "status")
            /\ PathKey(w) \in DOMAIN live
            /\ live[PathKey(w)].by = "insert") =>
               value'[w] = live[PathKey(w)].item]_vars

\* A lookup of a generated key returned the request stored without an id.
C6_Witness ==
    \E w \in Workers :
        /\ pc[w] = "returned" /\ req[w].op = "status"
        /\ PathKey(w) \in DOMAIN live
        /\ live[PathKey(w)].by = "insert"
        /\ value[w] = live[PathKey(w)].item
        /\ value[w].t = "obj" /\ value[w].n

\* C7: a remove of a present key succeeds, and a remove of a key whose last
\* successful mutation was a remove (no insert of it in between) returns
\* NotFound.
C7_RemoveTwice ==
    [][\A w \in Workers :
        CallStep(w, "cancel") =>
            /\ PathKey(w) \in DOMAIN storage =>
                   Truthy(value'[w]) /\ PathKey(w) \in removed'
            /\ PathKey(w) \in removed => value'[w] = None_]_vars

\* A second remove of a removed key came back NotFound.
C7_Witness ==
    \E w \in Workers :
        /\ pc[w] = "returned" /\ req[w].op = "cancel"
        /\ value[w] = None_
        /\ PathKey(w) \in removed

\* C8: an insert(k, p) with an explicit key whose last successful mutation
\* was a remove succeeds, returns k and stores p.
C8_ReinsertAfterRemove ==
    [][\A w \in Workers :
        (CallStep(w, "request") /\ ~req[w].item.n /\ req[w].item.s \in removed) =>
            /\ value'[w] = Str(req[w].item.s)
            /\ req[w].item.s \in DOMAIN storage'
            /\ storage'[req[w].item.s] = req[w].item]_vars

\* One worker has answered a successful cancel of k and has taken no request
\* since, and the other has inserted k again, which the registry now holds.
C8_Witness ==
    \E w1, w2 \in Workers :
        /\ w1 # w2
        /\ pc[w1] = "idle" /\ resp[w1].Action = <<REGISTRATION_CANCELLED>>
        /\ InCreate(w2) /\ ~req[w2].item.n
        /\ value[w2] = resp[w1].TransactionId
        /\ value[w2].s \in DOMAIN storage
        /\ storage[value[w2].s] = req[w2].item

----------------------------------------------------------------------------
(* Lifecycle and responses *)

\* C9: while t is held (a create of t succeeded and no cancel of t succeeded
\* since), every status check and update of t finds it and answers 200 with
\* TransactionId t; and a key leaves the registry only in a step that is a
\* successful cancel of that key.
C9_Lifecycle ==
    [][/\ \A w \in Workers : \A op \in {"status", "update"} :
            /\ (CallStep(w, op) /\ PathKey(w) \in DOMAIN live) =>
                   Truthy(value'[w])
            /\ (ReturnStep(w, op) /\ Truthy(value[w])) =>
                   /\ resp'[w].status = HTTP_200_OK
                   /\ resp'[w].type # "RequestRejection"
                   /\ resp'[w].TransactionId = req[w].transaction_id
       /\ \A k \in DOMAIN storage :
            k \notin DOMAIN storage' =>
                \E w \in Workers :
                    CallStep(w, "cancel") /\ PathKey(w) = k /\ Truthy(value'[w])]_vars

\* A status check of a held transaction id was acknowledged with 200.
C9_Witness ==
    \E w \in Workers :
        /\ pc[w] = "idle"
        /\ resp[w].type = "RequestAcknowledgement"
        /\ resp[w].status = HTTP_200_OK
        /\ resp[w].TransactionId.s \in DOMAIN live

\* C10 (as claimed): a create whose insert stored the request responds with
\* HTTP status 201 and a success envelope whose first action is
\* registration-created and whose TransactionId is the key it is stored under.
C10_CreateResponds201 ==
    [][\A w \in Workers :
        (ReturnStep(w, "request") /\ value[w] # None_) =>
            /\ resp'[w].type = "RequestSuccess"
            /\ Len(resp'[w].Action) > 0
            /\ resp'[w].Action[1] = REGISTRATION_CREATED
            /\ resp'[w].TransactionId = value[w]
            /\ resp'[w].status = HTTP_201_CREATED]_vars

----------------------------------------------------------------------------
(* Rejections *)

\* str.startswith
StartsWith(str, prefix) ==
    Len(str) >= Len(prefix) /\ SubSeq(str, 1, Len(prefix)) = prefix

PathOps == {"status", "update", "cancel"}

C12_AbsentResponds404 ==
    [][\A w \in Workers : \A op \in PathOps :
        /\ (CallStep(w, op) /\ PathKey(w) \notin DOMAIN live) => value'[w] = None_
        /\ (ReturnStep(w, op) /\ value[w] = None_) =>
               /\ resp'[w].status = HTTP_404_NOT_FOUND
               /\ resp'[w].type = "RequestRejection"
               /\ resp'[w].Error = <<IDENTITY_LOOKUP_FAILED>>
               /\ resp'[w].TransactionId = req[w].transaction_id]_vars

\* A request for an id that nothing holds was answered 404 with that id.
C12_Witness ==
    \E w \in Workers :
        /\ pc[w] = "idle"
        /\ resp[w].status = HTTP_404_NOT_FOUND
        /\ resp[w].TransactionId \in PathIds
        /\ resp[w].TransactionId.s \notin DOMAIN live

\* The operation worker w has called failed in the registry.
Failed(w) == pc[w] = "returned" /\ value[w] = None_

\* C13: every failed operation is answered with a rejection envelope whose
\* only error is identity-lookup-failed; the failing call leaves the
\* registry as it was, the worker is free again after the answer, and a
\* worker is never in a state from which it cannot take its next step.
C13_FailuresAreOutcomes ==
    /\ [](\A w \in Workers :
            /\ pc[w] \in {"idle", "received", "returned"}
            /\ pc[w] = "idle" => ENABLED Receive(w)
            /\ pc[w] # "idle" => req[w] \in Requests)
    /\ [][\A w \in Workers : \A op \in PathOps \cup {"request"} :
            /\ (CallStep(w, op) /\ value'[w] = None_) => storage' = storage
            /\ (ReturnStep(w, op) /\ Failed(w)) =>
                   /\ resp'[w].type = "RequestRejection"
                   /\ resp'[w].Error = <<IDENTITY_LOOKUP_FAILED>>
                   /\ resp'[w].status \in {HTTP_400_BAD_REQUEST, HTTP_404_NOT_FOUND}
                   /\ pc'[w] = "idle"]_vars

\* A worker whose last request was rejected is handling the next one, which
\* succeeded.
C13_Witness ==
    \E w1, w2 \in Workers :
        /\ w1 # w2
        /\ pc[w1] = "idle" /\ resp[w1].type = "RequestRejection"
        /\ pc[w2] = "returned" /\ value[w2] # None_
        /\ resp[w2] = NoResponse

----------------------------------------------------------------------------
(* Effects on the mapping *)

\* Worker w's registry call succeeds in this step.
Succeeds(w, op) == CallStep(w, op) /\ value'[w] # None_

\* C14: in every step the key set changes only so: a successful insert adds
\* exactly the returned key, which was absent (cardinality + 1); a
\* successful remove deletes exactly the removed key, which was present
\* (cardinality - 1); every other step (lookup, update, failed operation,
\* receipt, response, clock) leaves the key set unchanged.
C14_KeySetChanges ==
    [][LET keys == DOMAIN storage
           keys2 == DOMAIN storage'
       IN  /\ \A w \in Workers :
                /\ Succeeds(w, "request") =>
                       /\ value'[w].s \notin keys
                       /\ keys2 = keys \cup {value'[w].s}
                       /\ Cardinality(keys2) = Cardinality(keys) + 1
                /\ Succeeds(w, "cancel") =>
                       /\ PathKey(w) \in keys
                       /\ keys2 = keys \ {PathKey(w)}
                       /\ Cardinality(keys2) = Cardinality(keys) - 1
           /\ (\A w \in Workers : ~Succeeds(w, "request") /\ ~Succeeds(w, "cancel"))
                  => keys2 = keys]_vars

\* A successful insert has added its key to a registry that held one key.
C14_Witness ==
    \E w \in Workers :
        /\ InCreate(w) /\ w \in holds
        /\ value[w].s \in DOMAIN storage
        /\ Cardinality(DOMAIN storage) = 2

\* C15: a lookup has no side effects: found or not, the mapping, keys and
\* stored payloads, is the same after the status check's call and after its
\* response as before.
C15_LookupNoSideEffects ==
    [][\A w \in Workers :
        (CallStep(w, "status") \/ ReturnStep(w, "status")) =>
            storage' = storage]_vars

\* A status check found its entry, which the registry still holds unchanged.
C15_Witness ==
    \E w \in Workers :
        /\ pc[w] = "returned" /\ req[w].op = "status"
        /\ value[w] # None_
        /\ PathKey(w) \in DOMAIN storage
        /\ storage[PathKey(w)] = value[w]

----------------------------------------------------------------------------
(* Serial order *)

\* What the call worker w is about to make returns when the operations
\* called so far are taken one after another in the order of their calls:
\* `live` is the mapping that this serial history leaves.
SerialResult(w) ==
    LET op == req[w].op
        k  == IF op = "request" THEN ResolvedKey(w) ELSE PathKey(w)
    IN  CASE op = "request" -> IF k \in DOMAIN live THEN None_ ELSE Str(k)
          [] op = "status"  -> IF k \in DOMAIN live THEN live[k].item ELSE None_
          [] op = "update"  -> IF k \in DOMAIN live THEN req[w].item ELSE None_
          [] op = "cancel"  -> IF k \in DOMAIN live THEN Removed ELSE None_

\* C16: every interleaving of the handlers gives each call the result, and
\* the registry the state, of the serial order of the calls; a remove of a
\* key succeeds only while the key is held, so of two overlapping removes
\* of a held key only one succeeds, and an update called after a successful
\* remove of its key finds nothing and does not bring the key back.
C16_Serializable ==
    /\ [](/\ DOMAIN storage = DOMAIN live
          /\ \A k \in DOMAIN storage : storage[k] = live[k].item
          /\ removed \cap DOMAIN storage = {})
    /\ [][\A w \in Workers : \A op \in PathOps \cup {"request"} :
            CallStep(w, op) =>
                /\ value'[w] = SerialResult(w)
                /\ (op = "cancel" /\ PathKey(w) \in removed) => value'[w] = None_
                /\ (op = "update" /\ PathKey(w) \in removed) =>
                       value'[w] = None_ /\ PathKey(w) \notin DOMAIN storage']_vars

\* Two overlapping cancels of one key have both made their call: one removed
\* the key, the other found nothing.
C16_Witness ==
    \E w1, w2 \in Workers :
        /\ w1 # w2
        /\ pc[w1] = "returned" /\ req[w1].op = "cancel"
        /\ pc[w2] = "returned" /\ req[w2] = req[w1]
        /\ value[w1] = Removed /\ value[w2] = None_
        /\ PathKey(w1) \in removed

----------------------------------------------------------------------------
(* Termination *)

\* C17: under fair scheduling of the workers, every request a worker has
\* received gets its registry call made and its response returned: no
\* handler waits forever on another.
C17_EveryRequestAnswered ==
    \A w \in Workers :
        /\ (pc[w] = "received") ~> (pc[w] = "returned")
        /\ (pc[w] = "returned") ~> (pc[w] = "idle" /\ resp[w] # NoResponse)

\* One worker has answered its request while the other, dispatched
\* concurrently, has made its call and not yet answered.
C17_Witness ==
    \E w1, w2 \in Workers :
        /\ w1 # w2
        /\ pc[w1] = "idle" /\ resp[w1] # NoResponse
        /\ pc[w2] = "returned"
        /\ resp[w2] = NoResponse

----------------------------------------------------------------------------
(* Memory of removed keys, other keys, envelopes *)

\* The key of the operation worker w is about to call.
OpKey(w) == IF req[w].op = "request" THEN ResolvedKey(w) ELSE PathKey(w)

\* C18: from any registry state, a successful insert followed by a remove
\* of the returned key gives back the state before the insert; and an
\* operation on a key whose last successful mutation was a remove behaves
\* as on a key that was never inserted: an insert stores under it, a
\* lookup, update or remove finds nothing and changes nothing.
C18_NoMemoryOfOccupancy ==
    /\ [](\A r \in Requests :
            r.op = "request" =>
                LET a == request_call(storage, clock, r.item)
                    b == cancel_call(a.st, a.ret)
                IN  a.ret # None_ => (b.ret = Removed /\ b.st = storage))
    /\ [][\A w \in Workers : \A op \in PathOps \cup {"request"} :
            (CallStep(w, op) /\ OpKey(w) \in removed) =>
                IF op = "request"
                THEN /\ value'[w] = Str(OpKey(w))
                     /\ storage' = (OpKey(w) :> req[w].item) @@ storage
                ELSE /\ value'[w] = None_
                     /\ storage' = storage]_vars

\* Every key ever inserted has been removed, the registry is as it was at
\* the start, and a lookup of a removed key has found nothing.
C18_Witness ==
    \E w \in Workers :
        /\ storage = <<>> /\ removed # {}
        /\ pc[w] = "returned" /\ req[w].op = "status"
        /\ PathKey(w) \in removed
        /\ value[w] = None_

\* C19: an operation on key k, successful or failed, changes neither the
\* presence nor the stored payload of any other key; steps that are not
\* registry calls change nothing in the mapping.
C19_OtherKeysUntouched ==
    [][/\ \A w \in Workers : \A op \in PathOps \cup {"request"} :
            CallStep(w, op) =>
                \A k \in (DOMAIN storage \cup DOMAIN storage') \ {OpKey(w)} :
                    /\ k \in DOMAIN storage /\ k \in DOMAIN storage'
                    /\ storage'[k] = storage[k]
       /\ (\A w \in Workers : pc[w] = "received" => pc'[w] = "received")
              => storage' = storage]_vars

\* A cancel removed its key and the registry still holds another key.
C19_Witness ==
    \E w \in Workers :
        /\ pc[w] = "returned" /\ req[w].op = "cancel"
        /\ value[w] = Removed
        /\ PathKey(w) \notin DOMAIN storage
        /\ storage # <<>>

\* C20 (as claimed): a handler answers with a success envelope exactly when
\* its registry call succeeded and with a rejection envelope exactly when
\* it failed, whatever key the registry accepted (the empty string
\* included): a stored or found entry is never answered "already exists"
\* or "not found".
C20_EnvelopeMatchesOutcome ==
    [][\A w \in Workers : \A op \in PathOps \cup {"request"} :
        ReturnStep(w, op) =>
            /\ value[w] # None_ <=>
                   resp'[w].type \in {"RequestSuccess", "RequestAcknowledgement"}
            /\ value[w] = None_ <=> resp'[w].type = "RequestRejection"]_vars

====
